---- MODULE Spec2Model ----
(***************************************************************************)
(* ChatBot-PDF (src/main.py): a Streamlit script.  Every user interaction  *)
(* re-runs main() for that browser session.  A run with an uploaded PDF    *)
(* obtains a FAISS index through a pickle cache keyed by the file name     *)
(* (getDocEmbeds / storeDocEmbeds), builds a retrieval chain, applies a    *)
(* pending chat reset and answers a submitted question.                    *)
(*                                                                         *)
(* st.session_state is private to a session; the cache files in the        *)
(* working directory and the temporary directory are shared by all         *)
(* sessions of the server process, whose runs execute in separate threads. *)
(* A run is therefore split at its file-system and network operations.     *)
(***************************************************************************)
EXTENDS Integers, Sequences, FiniteSets, TLC

VARIABLES
    session_state,  \* per session: st.session_state, a map from the keys present
    uploaded,       \* per session: the file the uploader widget holds in this run
    user_input,     \* per session: the query submitted to this run ("" if none)
    vectors,        \* per session: main's local `vectors` (line 162)
    chain,          \* per session: main's local `chain`, as the index it retrieves from
    built,          \* per session: storeDocEmbeds' local `vectors` (line 89)
    error,          \* per session: the exception shown by st.error in this run
    pc,             \* per session: position of the run
    disk,           \* cache files: name -> content of name + ".pkl"
    tmp_file,       \* per session: whether the file at its last tmp_file_path exists
    stored          \* name -> whether storeDocEmbeds has been invoked for it

vars == <<session_state, uploaded, user_input, vectors, chain, built, error, pc,
          disk, tmp_file, stored>>

----------------------------------------------------------------------------
(* Bounds *)

MaxNames == 2        \* distinct file names offered to the uploader
MaxContents == 2     \* distinct readable PDF contents (0 is an unreadable one)
MaxQueries == 1      \* distinct query texts
MaxTurns == 2        \* turns a history may reach before no more are submitted

Sessions == {"s1", "s2"}
User == "s1"

FileName(i) == "f" \o ToString(i) \o ".pdf"
Names == {FileName(i) : i \in 1..MaxNames}
Contents == 0..MaxContents
Files == [name : Names, data : Contents]
Queries == {"q" \o ToString(i) : i \in 1..MaxQueries}

----------------------------------------------------------------------------
(* Values *)

None == [kind |-> "none"]

Absent == [kind |-> "absent"]
Partial == [kind |-> "partial"]

\* PyPDFLoader.load_and_split: the segments of a readable PDF, an exception otherwise
Readable(data) == data # 0
LoadAndSplit(data) == [segments |-> data]

\* FAISS.from_documents: the index over the segments
FromDocuments(docs) == [kind |-> "faiss", doc |-> docs.segments]

\* pickle.dump / pickle.load of an index
Pickle(index) == [kind |-> "pickle", bytes |-> index.doc]
Unpickle(file) == [kind |-> "faiss", doc |-> file.bytes]

\* os.path.isfile(filename + ".pkl")
IsFileAlwaysFalse(d, name) == FALSE
IsFile(d, name) == d[name].kind # "absent"

Hey == "Hey ! "
Hello(name) == "Hello ! Ask me anything about " \o name

\* chain({"question": ..., "chat_history": ...})["answer"], the language model
\* being a stub that returns a fixed answer to a question
Answer(query) == "answer to " \o query

----------------------------------------------------------------------------
(* st.session_state *)

Has(ss, key) == key \in DOMAIN ss
Put(ss, key, val) == [k \in DOMAIN ss \cup {key} |-> IF k = key THEN val ELSE ss[k]]
SetDefault(ss, key, val) == IF Has(ss, key) THEN ss ELSE Put(ss, key, val)

\* lines 130-131
ClickReset(ss, click) == IF click THEN Put(ss, "reset_chat", TRUE) ELSE ss

\* lines 140-149
InitFlagsReadyTrue(ss) ==
    SetDefault(SetDefault(SetDefault(ss, "history", <<>>), "ready", TRUE),
               "reset_chat", FALSE)
InitFlags(ss) ==
    SetDefault(SetDefault(SetDefault(ss, "history", <<>>), "ready", FALSE),
               "reset_chat", FALSE)

\* lines 170-180
MarkReady(ss, name) ==
    SetDefault(SetDefault(Put(ss, "ready", TRUE), "generated", <<Hello(name)>>),
               "past", <<Hey>>)

\* lines 199-207
ResetChatKeepsHistory(ss, name) ==
    IF ss["reset_chat"]
    THEN Put(Put(Put(ss, "past", <<Hey>>), "generated", <<Hello(name)>>),
             "reset_chat", FALSE)
    ELSE ss
ResetChat(ss, name) ==
    IF ss["reset_chat"]
    THEN Put(Put(Put(Put(ss, "history", <<>>), "past", <<Hey>>),
                 "generated", <<Hello(name)>>), "reset_chat", FALSE)
    ELSE ss

\* line 118
AppendHistory(ss, query, answer) ==
    Put(ss, "history", Append(ss["history"], <<query, answer>>))

\* lines 216-217
AppendShownPastOnly(ss, query, answer) ==
    Put(ss, "past", Append(ss["past"], query))
AppendShown(ss, query, answer) ==
    Put(Put(ss, "past", Append(ss["past"], query)),
        "generated", Append(ss["generated"], answer))

----------------------------------------------------------------------------
(* Initial state: a fresh server, no session has run, no cache files *)

Init ==
    /\ session_state = [s \in Sessions |-> <<>>]
    /\ uploaded = [s \in Sessions |-> None]
    /\ user_input = [s \in Sessions |-> ""]
    /\ vectors = [s \in Sessions |-> None]
    /\ chain = [s \in Sessions |-> None]
    /\ built = [s \in Sessions |-> None]
    /\ error = [s \in Sessions |-> ""]
    /\ pc = [s \in Sessions |-> "idle"]
    /\ disk = [n \in Names |-> Absent]
    /\ tmp_file = [s \in Sessions |-> FALSE]
    /\ stored = [n \in Names |-> FALSE]

----------------------------------------------------------------------------
(* What the previous run of a session left on the page *)

\* the Reset Chat button (line 130) is drawn by every run that has a file
ButtonShown(s) == uploaded[s] # None

\* the query form (line 191) is drawn by a run that got past getDocEmbeds
FormShown(s) == uploaded[s] # None /\ error[s] \in {"", "GenerationFailed"}

\* the locals of main() and of its nested functions end with the run
EndRun(s) ==
    /\ user_input' = [user_input EXCEPT ![s] = ""]
    /\ vectors' = [vectors EXCEPT ![s] = None]
    /\ chain' = [chain EXCEPT ![s] = None]
    /\ built' = [built EXCEPT ![s] = None]
    /\ pc' = [pc EXCEPT ![s] = "idle"]

\* except Exception (lines 235-236): show the error, the run ends
Raise(s, e) ==
    /\ error' = [error EXCEPT ![s] = e]
    /\ EndRun(s)

----------------------------------------------------------------------------
(* A run without an uploaded file: lines 53-71, nothing else executes *)

RunWithoutFile(s) ==
    /\ pc[s] = "idle"
    /\ uploaded[s] # None
    /\ uploaded' = [uploaded EXCEPT ![s] = None]
    /\ error' = [error EXCEPT ![s] = ""]
    /\ EndRun(s)
    /\ UNCHANGED <<session_state, disk, tmp_file, stored>>

(* A run with a file, up to the existence check of getDocEmbeds             *)
(* (lines 53-62, 126-162, 100) and, when the check fails, the temporary     *)
(* file of storeDocEmbeds (lines 102, 77-79).  The run is caused by an      *)
(* upload (any file), by the reset button or by the form (same file).       *)

StartRun(s, file, click, query) ==
    /\ pc[s] = "idle"
    /\ click => ButtonShown(s) /\ file = uploaded[s]
    /\ query # "" => FormShown(s) /\ file = uploaded[s] /\ ~click
    /\ LET ss == InitFlags(ClickReset(session_state[s], click)) IN
        /\ query # "" => Len(ss["history"]) < MaxTurns
        /\ session_state' = [session_state EXCEPT ![s] = ss]
    /\ uploaded' = [uploaded EXCEPT ![s] = file]
    /\ user_input' = [user_input EXCEPT ![s] = query]
    /\ error' = [error EXCEPT ![s] = ""]
    /\ IF IsFile(disk, file.name)
       THEN /\ pc' = [pc EXCEPT ![s] = "load_cache"]
            /\ UNCHANGED <<tmp_file, stored>>
       ELSE /\ stored' = [stored EXCEPT ![file.name] = TRUE]
            /\ tmp_file' = [tmp_file EXCEPT ![s] = TRUE]
            /\ pc' = [pc EXCEPT ![s] = "load_pdf"]
    /\ UNCHANGED <<vectors, chain, built, disk>>

----------------------------------------------------------------------------
(* storeDocEmbeds *)

\* lines 82-83: PyPDFLoader(...).load_and_split()
LoadPdf(s) ==
    /\ pc[s] = "load_pdf"
    /\ IF Readable(uploaded[s].data)
       THEN /\ pc' = [pc EXCEPT ![s] = "embed"]
            /\ UNCHANGED <<user_input, vectors, chain, built, error>>
       ELSE Raise(s, "UnreadableDocument")
    /\ UNCHANGED <<session_state, uploaded, disk, tmp_file, stored>>

\* lines 86-90: the embedding provider answers or fails; os.remove on success
EmbedOk(s) ==
    /\ pc[s] = "embed"
    /\ built' = [built EXCEPT ![s] = FromDocuments(LoadAndSplit(uploaded[s].data))]
    /\ tmp_file' = [tmp_file EXCEPT ![s] = FALSE]
    /\ pc' = [pc EXCEPT ![s] = "open_cache"]
    /\ UNCHANGED <<session_state, uploaded, user_input, vectors, chain, error,
                   disk, stored>>

EmbedFail(s) ==
    /\ pc[s] = "embed"
    /\ Raise(s, "EmbeddingUnavailable")
    /\ UNCHANGED <<session_state, uploaded, disk, tmp_file, stored>>

\* line 93: open(filename + ".pkl", "wb") creates or truncates the file
OpenCache(s) ==
    /\ pc[s] = "open_cache"
    /\ disk' = [disk EXCEPT ![uploaded[s].name] = Partial]
    /\ pc' = [pc EXCEPT ![s] = "dump"]
    /\ UNCHANGED <<session_state, uploaded, user_input, vectors, chain, built,
                   error, tmp_file, stored>>

\* line 94: pickle.dump completes, or fails part-way through the file
DumpOk(s) ==
    /\ pc[s] = "dump"
    /\ disk' = [disk EXCEPT ![uploaded[s].name] = Pickle(built[s])]
    /\ pc' = [pc EXCEPT ![s] = "load_cache"]
    /\ UNCHANGED <<session_state, uploaded, user_input, vectors, chain, built,
                   error, tmp_file, stored>>

DumpFail(s) ==
    /\ pc[s] = "dump"
    /\ disk' = [disk EXCEPT ![uploaded[s].name] = Partial]
    /\ Raise(s, "CacheWriteFailed")
    /\ UNCHANGED <<session_state, uploaded, tmp_file, stored>>

----------------------------------------------------------------------------
(* getDocEmbeds, lines 105-109, and the chain set-up, lines 162-180 *)

LoadCache(s) ==
    /\ pc[s] = "load_cache"
    /\ LET file == disk[uploaded[s].name] IN
        IF file.kind = "pickle"
        THEN /\ vectors' = [vectors EXCEPT ![s] = Unpickle(file)]
             /\ pc' = [pc EXCEPT ![s] = "setup"]
             /\ UNCHANGED <<user_input, chain, built, error>>
        ELSE Raise(s, "CacheCorrupt")
    /\ UNCHANGED <<session_state, uploaded, disk, tmp_file, stored>>

SetupChain(s) ==
    /\ pc[s] = "setup"
    /\ chain' = [chain EXCEPT ![s] = vectors[s]]
    /\ session_state' = [session_state EXCEPT
                           ![s] = MarkReady(@, uploaded[s].name)]
    /\ pc' = [pc EXCEPT ![s] = "form"]
    /\ UNCHANGED <<uploaded, user_input, vectors, built, error, disk, tmp_file,
                   stored>>

----------------------------------------------------------------------------
(* The form, lines 173, 188-210: apply a pending reset, then either go on   *)
(* to the question or draw the messages (lines 220-232) and end the run     *)

Form(s) ==
    /\ pc[s] = "form"
    /\ session_state[s]["ready"]
    /\ session_state' = [session_state EXCEPT
                           ![s] = ResetChat(@, uploaded[s].name)]
    /\ IF user_input[s] # ""
       THEN /\ pc' = [pc EXCEPT ![s] = "ask"]
            /\ UNCHANGED <<user_input, vectors, chain, built>>
       ELSE EndRun(s)
    /\ UNCHANGED <<uploaded, error, disk, tmp_file, stored>>

(* conversational_chat and lines 213-232 *)

AskOk(s) ==
    /\ pc[s] = "ask"
    /\ LET answer == Answer(user_input[s]) IN
        session_state' = [session_state EXCEPT
            ![s] = AppendShown(AppendHistory(@, user_input[s], answer),
                               user_input[s], answer)]
    /\ EndRun(s)
    /\ UNCHANGED <<uploaded, error, disk, tmp_file, stored>>

AskFailPartialTurn(s) ==
    /\ pc[s] = "ask"
    /\ session_state' = [session_state EXCEPT
                           ![s] = AppendHistory(@, user_input[s], "")]
    /\ Raise(s, "GenerationFailed")
    /\ UNCHANGED <<uploaded, disk, tmp_file, stored>>
AskFail(s) ==
    /\ pc[s] = "ask"
    /\ Raise(s, "GenerationFailed")
    /\ UNCHANGED <<session_state, uploaded, disk, tmp_file, stored>>

----------------------------------------------------------------------------

Step(s) ==
    \/ RunWithoutFile(s)
    \/ \E file \in Files, click \in BOOLEAN, query \in Queries \cup {""} :
          StartRun(s, file, click, query)
    \/ LoadPdf(s)
    \/ EmbedOk(s)
    \/ EmbedFail(s)
    \/ OpenCache(s)
    \/ DumpOk(s)
    \/ DumpFail(s)
    \/ LoadCache(s)
    \/ SetupChain(s)
    \/ Form(s)
    \/ AskOk(s)
    \/ AskFail(s)

\* one browser session: its runs follow one another
Next == Step(User)

Spec == Init /\ [][Next]_vars

\* several browser sessions whose users upload files: their runs interleave
Upload(s) == \E file \in Files : StartRun(s, file, FALSE, "")

Caller(s) ==
    \/ Upload(s)
    \/ LoadPdf(s)
    \/ EmbedOk(s)
    \/ EmbedFail(s)
    \/ OpenCache(s)
    \/ DumpOk(s)
    \/ DumpFail(s)
    \/ LoadCache(s)
    \/ SetupChain(s)
    \/ Form(s)

NextConc == \E s \in Sessions : Caller(s)

SpecConc == Init /\ [][NextConc]_vars

----------------------------------------------------------------------------
(* Properties *)

History(s) == session_state[s]["history"]
Past(s) == session_state[s]["past"]
Generated(s) == session_state[s]["generated"]
Ready(s) == Has(session_state[s], "ready") /\ session_state[s]["ready"]
ResetPending(s) == Has(session_state[s], "reset_chat") /\ session_state[s]["reset_chat"]

\* a run enters storeDocEmbeds in this step
InvokesBuilder(s) == pc[s] = "idle" /\ pc'[s] = "load_pdf"

\* the errors with which getDocEmbeds ends a run
IndexErrors ==
    {"UnreadableDocument", "EmbeddingUnavailable", "CacheWriteFailed", "CacheCorrupt"}

Building(s) == pc[s] \in {"load_pdf", "embed", "open_cache", "dump"}

\* C1 (as claimed): across the calls of getDocEmbeds with one key, run one after
\* another, storeDocEmbeds is invoked at most once: it is never invoked for a
\* key it has been invoked for before.
C1_BuilderInvokedAtMostOnce ==
    [][\A s \in Sessions :
          InvokesBuilder(s) => ~stored[uploaded'[s].name]]_vars

\* C1 (amended): getDocEmbeds invokes storeDocEmbeds only when no cache entry
\* exists for the key; when an entry exists the run goes on to load it, creating
\* no temporary file, and what it loads is the entry; a complete entry is never
\* written again, so at most one build per key completes.
C1_BuilderOnlyWithoutEntry ==
    [][/\ \A s \in Sessions :
            /\ InvokesBuilder(s) => disk[uploaded'[s].name] = Absent
            /\ (pc[s] = "idle" /\ pc'[s] = "load_cache")
                  => /\ disk[uploaded'[s].name] # Absent
                     /\ stored' = stored
                     /\ tmp_file' = tmp_file
            /\ (pc[s] = "load_cache" /\ pc'[s] = "setup")
                  => Pickle(vectors'[s]) = disk[uploaded[s].name]
       /\ \A n \in Names : disk[n].kind = "pickle" => disk'[n] = disk[n]]_vars

\* a run has loaded the index from an entry it did not build
C1_CachedIndexLoaded ==
    \E s \in Sessions :
        /\ pc[s] = "setup"
        /\ built[s] = None
        /\ vectors[s] # None
        /\ stored[uploaded[s].name]

\* C2: a successful ask appends exactly the turn (question, answer) to the
\* history; a failed ask leaves history, past and generated as they were.
C2_AskAppendsOneTurnOrNothing ==
    [][\A s \in Sessions :
          (pc[s] = "ask" /\ pc'[s] # "ask") =>
              IF error'[s] = "GenerationFailed"
              THEN session_state'[s] = session_state[s]
              ELSE /\ Len(History(s)') = Len(History(s)) + 1
                   /\ SubSeq(History(s)', 1, Len(History(s))) = History(s)
                   /\ History(s)'[Len(History(s)')] =
                         <<user_input[s], Generated(s)'[Len(Generated(s)')]>>
                   /\ Generated(s)'[Len(Generated(s)')] = Answer(user_input[s])]_vars

\* an ask has failed in a session whose history already holds a turn
C2_FailedAskAfterTurn ==
    \E s \in Sessions :
        /\ pc[s] = "idle"
        /\ error[s] = "GenerationFailed"
        /\ Len(History(s)) >= 1

\* C3: the step that applies a pending reset leaves an empty history, past and
\* generated holding the one greeting, and the reset_chat flag false.
C3_ResetClearsInOneStep ==
    [][\A s \in Sessions :
          (pc[s] = "form" /\ pc'[s] # "form" /\ ResetPending(s)) =>
              /\ History(s)' = <<>>
              /\ Past(s)' = <<Hey>>
              /\ Generated(s)' = <<Hello(uploaded[s].name)>>
              /\ ~ResetPending(s)']_vars

\* a reset is about to be applied to a history that holds turns
C3_ResetOfNonEmptyHistory ==
    \E s \in Sessions :
        /\ pc[s] = "form"
        /\ ResetPending(s)
        /\ Len(History(s)) >= 1

\* C4 (as claimed): no failure path commits partial state: a cache file is
\* partial only while its writer is between open and dump, and every turn of a
\* history is a complete (question, answer) pair.
C4_NoPartialStateCommitted ==
    /\ \A n \in Names :
          disk[n] = Partial =>
              \E s \in Sessions : pc[s] = "dump" /\ uploaded[s].name = n
    /\ \A s \in Sessions :
          Has(session_state[s], "history") =>
              \A i \in 1..Len(History(s)) :
                  History(s)[i][1] \in Queries /\ History(s)[i][2] # ""

\* C5 (as claimed): an entry that cannot be deserialized is rebuilt: no run
\* ends by showing the deserialization error.
C5_CorruptEntryIsRebuilt ==
    \A s \in Sessions : error[s] # "CacheCorrupt"

\* C6 (as claimed): an ask is answered from the index built from the content of
\* the file that is uploaded.
C6_AnswersFromActiveDocument ==
    \A s \in Sessions :
        pc[s] = "ask" => chain[s] = FromDocuments(LoadAndSplit(uploaded[s].data))

\* C7 (as claimed): of the callers that request one key, at most one is
\* building it, and no caller loads a file that another is writing.
C7_AtMostOneBuildPerKey ==
    \A n \in Names :
        /\ Cardinality({s \in Sessions : Building(s) /\ uploaded[s].name = n}) <= 1
        /\ \A s, w \in Sessions :
              (pc[s] = "load_cache" /\ uploaded[s].name = n /\ s # w)
                  => ~(pc[w] = "dump" /\ uploaded[w].name = n)

\* C8 (as claimed): the temporary file of a call of storeDocEmbeds exists only
\* while the call is loading or embedding the document: none remains once the
\* call has returned or raised.
C8_NoTempFileRemains ==
    \A s \in Sessions : tmp_file[s] => pc[s] \in {"load_pdf", "embed"}

\* C9 (as claimed): whenever a run for an uploaded file has ended with the
\* ready flag true, that run obtained the index of the file; and an ask is
\* processed only in a run that obtained the index.
C9_ReadyMeansIndexObtained ==
    \A s \in Sessions :
        /\ (pc[s] = "idle" /\ uploaded[s] # None /\ Ready(s))
              => error[s] \notin IndexErrors
        /\ pc[s] = "ask" => vectors[s] # None

\* C9 (amended): the ready flag becomes true only in a run that has obtained
\* the index, read from the entry of the uploaded file's name; and an ask is
\* processed only in a run that obtained the index.
C9_ReadyOnlyByObtainedIndex ==
    [][\A s \in Sessions :
          /\ (~Ready(s) /\ Ready(s)')
                => /\ vectors[s] # None
                   /\ Pickle(vectors[s]) = disk[uploaded[s].name]
          /\ pc'[s] = "ask" => vectors'[s] # None /\ chain'[s] = vectors'[s]]_vars

\* the session went ready with the index it obtained
C9_ReadyWithIndex ==
    \E s \in Sessions : pc[s] = "form" /\ Ready(s) /\ vectors[s] # None

\* C10: once past and generated exist they are one longer than the history,
\* and after the greeting they hold its questions and answers in order.
C10_ShownListsFollowHistory ==
    \A s \in Sessions :
        (Has(session_state[s], "past") /\ Has(session_state[s], "generated")) =>
            /\ Len(Past(s)) = Len(History(s)) + 1
            /\ Len(Generated(s)) = Len(History(s)) + 1
            /\ \A i \in 1..Len(History(s)) :
                  <<Past(s)[i + 1], Generated(s)[i + 1]>> = History(s)[i]

\* a session holds as many turns as the bound allows
C10_FullHistoryShown ==
    \E s \in Sessions :
        /\ Has(session_state[s], "past")
        /\ Len(History(s)) = MaxTurns
        /\ Len(Past(s)) = MaxTurns + 1

====
